---- MODULE Spec2Model ----
(***************************************************************************)
(* The durable job queue of signmakerv2: the SQLite-backed queue API of    *)
(* jobs.py and the worker loop of worker.py.                               *)
(*                                                                         *)
(* The store is the sequence `jobs`: row k is the k-th inserted row (its   *)
(* rowid). Where workers run, its id is k (the uuid4 text is abstracted to *)
(* the rowid); in SpecEnq the id is the value uuid4 has drawn.             *)
(* Every statement that reaches the store (one execute+commit, or one      *)
(* autocommit SELECT) is one atomic step; the steps of different workers   *)
(* interleave freely, as the statements of different processes do.         *)
(***************************************************************************)
EXTENDS Integers, Sequences, FiniteSets, TLC

VARIABLES
    jobs,     \* the jobs table, in rowid order
    now,      \* the wall clock, time.time()
    wk,       \* per worker process: the locals of worker_loop / claim_next_job / process_job
    execs,    \* history: per job id, how many times a handler was started on it
    seen,     \* history: per job id, the statuses the row has had
    calls,    \* history: the enqueue_job calls that returned, with their arguments
    prod,     \* per producer process: the locals of its running enqueue_job call
    out       \* the last call of list_jobs / update_job_status: arguments and return value

vars == <<jobs, now, wk, execs, seen, calls, prod, out>>

\* what the callers of the queue API hold
client == <<calls, prod, out>>

----------------------------------------------------------------------------
(* Bounds of the model *)

MaxJobs == 2          \* rows ever enqueued (Spec and SpecWide hold one row)
MaxTime == 2          \* the clock runs 0..MaxTime
MaxAttempts == 2      \* enqueue_job is called with max_attempts in 1..MaxAttempts
MaxUuids == 2         \* uuid.uuid4() draws from 1..MaxUuids (SpecEnq)
StaleTimeout == 1     \* STALE_JOB_TIMEOUT (600 s in worker.py:30), in clock ticks
EmptyPollPeriod == 2  \* the "% 30" of worker.py:134, scaled down
ActiveListLimit == 2  \* the limit=1000 of api_jobs.py:83-84, scaled down
DoneListLimit == 1    \* the limit=100 of api_jobs.py:85-86, scaled down

(* Program values *)

NULL == -1            \* SQL NULL / Python None of a numeric column or argument
NullText == "NULL"    \* SQL NULL / Python None of a text column or argument

Workers == {"w1", "w2"}                        \* WORKER_ID of each worker process
Producers == {"p1", "p2"}                      \* processes calling enqueue_job
Uuids == 1..MaxUuids                           \* the values uuid.uuid4() can return
Requesters == {NullText, "web"}                \* requested_by: None or a user
DefaultMaxAttempts == 3                        \* max_attempts: int = 3
DefaultLimit == 50                             \* list_jobs: limit: int = 50
Statuses == {"queued", "running", "succeeded", "failed"}
KnownType == "generate_amazon_content"         \* the one type process_job dispatches
JobTypes == {KnownType, "demo"}                \* "demo": a type with no handler

\* Python values, as far as payloads need them: a str or an int with its text,
\* a list or a tuple of values, a dict as its (key, value) pairs in order
PyNone == [t |-> "none", v |-> "null"]
PyStr(text) == [t |-> "str", v |-> text]
PyInt(text) == [t |-> "int", v |-> text]
PyList(items) == [t |-> "list", v |-> items]
PyTuple(items) == [t |-> "tuple", v |-> items]
PyDict(pairs) == [t |-> "dict", v |-> pairs]

PlainPayload == PyDict(<< <<PyStr("m_number"), PyStr("7")>> >>)     \* {"m_number": "7"}
ListPayload == PyDict(<< <<PyStr("sizes"), PyList(<<PyInt("7")>>)>> >>)   \* {"sizes": [7]}
IntKeyPayload == PyDict(<< <<PyInt("1"), PyStr("7")>> >>)           \* {1: "7"}
TuplePayload == PyDict(<< <<PyStr("sizes"), PyTuple(<<PyInt("7")>>)>> >>) \* {"sizes": (7,)}

Payloads == {PlainPayload}
PyPayloads == {PlainPayload, ListPayload, IntKeyPayload, TuplePayload}
Outcomes == {"ok", "error", "raise"}           \* returncode 0, returncode # 0, exception

ErrScript == "Script failed"
ErrUnknown == "Unknown job type"
ErrException == "Worker exception"

\* the None of claim_next_job / `job`
NoJob == [id |-> 0, type |-> NullText, payload |-> PyNone, attempts |-> 0,
          max_attempts |-> 0]

\* more handler starts than this are counted as this many
ExecsCap == MaxAttempts + 1

\* the except branch is followed while the attempts it writes stay within this
\* (workers that hold one job at once can push attempts past max_attempts
\* without end)
AttemptsCap == MaxAttempts + 1

----------------------------------------------------------------------------
(* The queue API of jobs.py as operators on the table *)

JobIds(db) == 1..Len(db)

RECURSIVE JsonDumps(_)
\* json.dumps(value): the JSON document, as its tree. A dict becomes an object
\* whose keys are strings (an int key is written as its decimal text), a list
\* and a tuple both become an array
JsonDumps(x) ==
    CASE x.t = "dict" ->
            [t |-> "object",
             v |-> [i \in 1..Len(x.v) |-> <<x.v[i][1].v, JsonDumps(x.v[i][2])>>]]
      [] x.t \in {"list", "tuple"} ->
            [t |-> "array", v |-> [i \in 1..Len(x.v) |-> JsonDumps(x.v[i])]]
      [] x.t = "str" -> [t |-> "string", v |-> x.v]
      [] x.t = "int" -> [t |-> "number", v |-> x.v]
      [] OTHER -> [t |-> "null", v |-> "null"]

RECURSIVE JsonLoads(_)
\* json.loads(text): an object becomes a dict with str keys, an array a list
JsonLoads(x) ==
    CASE x.t = "object" ->
            PyDict([i \in 1..Len(x.v) |-> <<PyStr(x.v[i][1]), JsonLoads(x.v[i][2])>>])
      [] x.t = "array" -> PyList([i \in 1..Len(x.v) |-> JsonLoads(x.v[i])])
      [] x.t = "string" -> PyStr(x.v)
      [] x.t = "number" -> PyInt(x.v)
      [] OTHER -> PyNone

\* as NewJob, with started_at stamped at insertion
NewJobStarted(id, type, payload, requested_by, max_attempts, t) ==
    [id |-> id, type |-> type, status |-> "queued",
     created_at |-> t, updated_at |-> t,
     started_at |-> t, finished_at |-> NULL,
     requested_by |-> requested_by, payload |-> payload,
     result |-> NullText, error |-> NullText,
     attempts |-> 0, max_attempts |-> max_attempts,
     progress |-> NullText, worker_id |-> NullText]

\* enqueue_job's INSERT: the new row, with the schema's defaults
NewJob(id, type, payload, requested_by, max_attempts, t) ==
    [id |-> id, type |-> type, status |-> "queued",
     created_at |-> t, updated_at |-> t,
     started_at |-> NULL, finished_at |-> NULL,
     requested_by |-> requested_by, payload |-> payload,
     result |-> NullText, error |-> NullText,
     attempts |-> 0, max_attempts |-> max_attempts,
     progress |-> NullText, worker_id |-> NullText]

\* as KeyExists, with no PRIMARY KEY on id
KeyNeverExists(db, id) == FALSE

\* id TEXT PRIMARY KEY: a row with this id is in the table, so that an INSERT of
\* it raises sqlite3.IntegrityError
KeyExists(db, id) == \E k \in JobIds(db) : db[k].id = id

\* the value of enqueue_job's max_attempts parameter: NULL stands for a call
\* that leaves it out
MaxAttemptsParam(given) == IF given = NULL THEN DefaultMaxAttempts ELSE given

\* ORDER BY created_at, read off the index idx_jobs_status (status, created_at):
\* rows with equal created_at come out in rowid order, the order of insertion
Before(db, a, b) ==
    \/ db[a].created_at < db[b].created_at
    \/ db[a].created_at = db[b].created_at /\ a < b

\* as SelectNextQueued, with ORDER BY created_at DESC
SelectNewestQueued(db) ==
    LET queued == {k \in JobIds(db) : db[k].status = "queued"}
    IN  IF queued = {} THEN 0
        ELSE CHOOSE k \in queued : \A m \in queued \ {k} : Before(db, m, k)

\* claim_next_job's SELECT ... WHERE status = 'queued' ORDER BY created_at LIMIT 1;
\* 0 when no row matches (fetchone() is None)
SelectNextQueued(db) ==
    LET queued == {k \in JobIds(db) : db[k].status = "queued"}
    IN  IF queued = {} THEN 0
        ELSE CHOOSE k \in queued : \A m \in queued \ {k} : Before(db, k, m)

\* the WHERE of claim_next_job's UPDATE
ClaimMatches(db, id) == id \in JobIds(db) /\ db[id].status = "queued"

\* as ClaimUpdate, with started_at left alone
ClaimUpdateNoStart(db, id, worker_id, t) ==
    IF ClaimMatches(db, id)
    THEN [db EXCEPT ![id] = [@ EXCEPT !.status = "running",
                                      !.worker_id = worker_id, !.updated_at = t]]
    ELSE db

\* as ClaimUpdate, with created_at stamped anew
ClaimUpdateRestamps(db, id, worker_id, t) ==
    IF ClaimMatches(db, id)
    THEN [db EXCEPT ![id] = [@ EXCEPT !.status = "running", !.started_at = t,
                                      !.worker_id = worker_id, !.updated_at = t,
                                      !.created_at = t]]
    ELSE db

\* claim_next_job's conditional UPDATE
ClaimUpdate(db, id, worker_id, t) ==
    IF ClaimMatches(db, id)
    THEN [db EXCEPT ![id] = [@ EXCEPT !.status = "running", !.started_at = t,
                                      !.worker_id = worker_id, !.updated_at = t]]
    ELSE db

\* update_job_status: finished_at is written exactly for the two terminal statuses
SetsFinished(status) == status \in {"succeeded", "failed"}

\* as UpdateJobStatus, with the error column written on every call
UpdateJobStatusWritesError(db, id, status, result, error, progress, attempts, t) ==
    IF id \notin JobIds(db) THEN db
    ELSE [db EXCEPT ![id] =
            [@ EXCEPT !.updated_at = t,
                      !.status = status,
                      !.finished_at = IF SetsFinished(status) THEN t ELSE @,
                      !.result = IF result # NullText THEN result ELSE @,
                      !.error = error,
                      !.progress = IF progress # NullText THEN progress ELSE @,
                      !.attempts = IF attempts # NULL THEN attempts ELSE @]]

\* as UpdateJobStatus, with the worker_id column cleared on every call
UpdateJobStatusClearsWorker(db, id, status, result, error, progress, attempts, t) ==
    IF id \notin JobIds(db) THEN db
    ELSE [db EXCEPT ![id] =
            [@ EXCEPT !.updated_at = t,
                      !.status = status,
                      !.worker_id = NullText,
                      !.finished_at = IF SetsFinished(status) THEN t ELSE @,
                      !.result = IF result # NullText THEN result ELSE @,
                      !.error = IF error # NullText THEN error ELSE @,
                      !.progress = IF progress # NullText THEN progress ELSE @,
                      !.attempts = IF attempts # NULL THEN attempts ELSE @]]

\* update_job_status(job_id, status, result, error, progress, attempts);
\* NullText / NULL stand for an argument left at None
UpdateJobStatus(db, id, status, result, error, progress, attempts, t) ==
    IF id \notin JobIds(db) THEN db
    ELSE [db EXCEPT ![id] =
            [@ EXCEPT !.updated_at = t,
                      !.status = status,
                      !.finished_at = IF SetsFinished(status) THEN t ELSE @,
                      !.result = IF result # NullText THEN result ELSE @,
                      !.error = IF error # NullText THEN error ELSE @,
                      !.progress = IF progress # NullText THEN progress ELSE @,
                      !.attempts = IF attempts # NULL THEN attempts ELSE @]]

\* as IsStale, with started_at <= cutoff
IsStaleInclusive(job, cutoff) == job.status = "running" /\ job.started_at <= cutoff

\* the WHERE of requeue_stale_jobs: status = 'running' AND started_at < cutoff
IsStale(job, cutoff) == job.status = "running" /\ job.started_at < cutoff

\* as RequeueStale, with the requeue counted as an attempt
RequeueStaleCountsAttempt(db, timeout, t) ==
    LET cutoff == t - timeout
    IN  [k \in JobIds(db) |->
            IF IsStale(db[k], cutoff)
            THEN [db[k] EXCEPT !.status = "queued", !.worker_id = NullText,
                               !.updated_at = t, !.attempts = @ + 1]
            ELSE db[k]]

\* as RequeueStale, with the requeued job sent to the tail of the queue
RequeueStaleToTail(db, timeout, t) ==
    LET cutoff == t - timeout
    IN  [k \in JobIds(db) |->
            IF IsStale(db[k], cutoff)
            THEN [db[k] EXCEPT !.status = "queued", !.worker_id = NullText,
                               !.updated_at = t, !.created_at = t]
            ELSE db[k]]

\* requeue_stale_jobs(timeout_seconds)
RequeueStale(db, timeout, t) ==
    LET cutoff == t - timeout
    IN  [k \in JobIds(db) |->
            IF IsStale(db[k], cutoff)
            THEN [db[k] EXCEPT !.status = "queued", !.worker_id = NullText,
                               !.updated_at = t]
            ELSE db[k]]

\* `if status:` / `if job_type:` of list_jobs: None and the empty string are
\* falsy, the filter is then left out of the query
Truthy(text) == text \notin {NullText, ""}

\* the rows of list_jobs' WHERE 1=1 [AND status = ?] [AND type = ?]
ListMatches(db, status, job_type) ==
    {k \in JobIds(db) : /\ Truthy(status) => db[k].status = status
                        /\ Truthy(job_type) => db[k].type = job_type}

\* as ListOrders, with ORDER BY created_at ASC
ListOrdersOldestFirst(db, S) ==
    {s \in [1..Cardinality(S) -> S] :
        /\ \A i, j \in DOMAIN s : i # j => s[i] # s[j]
        /\ \A i, j \in DOMAIN s : i < j => db[s[i]].created_at <= db[s[j]].created_at}

\* ORDER BY created_at DESC over the rows S: rows with equal created_at come out
\* in an order SQL leaves open (it changes with the query plan), so every order
\* with created_at descending is one the query can give
ListOrders(db, S) ==
    {s \in [1..Cardinality(S) -> S] :
        /\ \A i, j \in DOMAIN s : i # j => s[i] # s[j]
        /\ \A i, j \in DOMAIN s : i < j => db[s[i]].created_at >= db[s[j]].created_at}

\* the value of list_jobs' limit parameter: NULL stands for a call that leaves
\* it out
LimitParam(given) == IF given = NULL THEN DefaultLimit ELSE given

\* LIMIT ? with a limit >= 0
Truncate(rows, limit) ==
    IF limit < Len(rows) THEN SubSeq(rows, 1, limit) ELSE rows

\* the job dict list_jobs builds of a row: the payload parsed
ListRow(job) == [job EXCEPT !.payload = JsonLoads(@)]

\* list_jobs(status, job_type, limit): the lists it can return
ListJobs(db, status, job_type, limit) ==
    {Truncate([i \in DOMAIN s |-> ListRow(db[s[i]])], LimitParam(limit)) :
        s \in ListOrders(db, ListMatches(db, status, job_type))}

\* get_job_stats: the four buckets, in the order they are listed
StatsBuckets == <<"queued", "running", "succeeded", "failed">>

\* as StatsLimits, with the limit of the finished buckets on all four
StatsLimitsAllDone == <<DoneListLimit, DoneListLimit, DoneListLimit, DoneListLimit>>

\* get_job_stats: the limit each bucket is listed with
StatsLimits == <<ActiveListLimit, ActiveListLimit, DoneListLimit, DoneListLimit>>

\* get_job_stats: 'total' of the response
StatsTotal(counts) == counts[1] + counts[2] + counts[3] + counts[4]

\* as GetJob, with the payload column handed back as stored
GetJobUnparsed(db, id) ==
    IF id \notin JobIds(db) THEN NoJob
    ELSE [id |-> db[id].id, type |-> db[id].type, payload |-> db[id].payload,
          attempts |-> db[id].attempts, max_attempts |-> db[id].max_attempts]

\* get_job(job_id) as process_job reads it: of the dict it is handed, process_job
\* reads id, type, payload, attempts and max_attempts only. The payload column
\* is never empty text (NOT NULL, written by json.dumps), so it is parsed
GetJob(db, id) ==
    IF id \notin JobIds(db) THEN NoJob
    ELSE [id |-> db[id].id, type |-> db[id].type,
          payload |-> JsonLoads(db[id].payload),
          attempts |-> db[id].attempts, max_attempts |-> db[id].max_attempts]

----------------------------------------------------------------------------
(* process_job's decisions *)

\* as IsKnownType, with every type dispatched to the handler
IsAnyType(type) == type \in JobTypes

\* the dispatch of process_job: the if / else on job_type
IsKnownType(type) == type = KnownType

\* as StatusAfterException, with attempts > max_attempts
StatusAfterExceptionStrict(attempts, max_attempts) ==
    IF attempts > max_attempts THEN "failed" ELSE "queued"

\* as StatusAfterException, with no retry
StatusAfterExceptionNoRetry(attempts, max_attempts) == "failed"

\* as StatusAfterException, with a retry whatever the attempts
StatusAfterExceptionAlwaysRetry(attempts, max_attempts) == "queued"

\* the except branch: failed when the attempts are used up, else queued again
StatusAfterException(attempts, max_attempts) ==
    IF attempts >= max_attempts THEN "failed" ELSE "queued"

----------------------------------------------------------------------------
(* The state *)

\* a producer process outside enqueue_job
ProducerInit == [pc |-> "idle", job_id |-> 0, now |-> 0]

\* no call of list_jobs / update_job_status made yet
NoCall == [op |-> "none"]

WorkerInit == [pc |-> "loop", polls |-> 0, claim_now |-> 0, sel |-> 0,
               rowcount |-> 0, job |-> NoJob, outcome |-> "none"]

Init ==
    /\ jobs = <<>>
    /\ now = 0
    /\ wk = [w \in Workers |-> WorkerInit]
    /\ execs = [k \in 1..MaxJobs |-> 0]
    /\ seen = [k \in 1..MaxJobs |-> {}]
    /\ calls = <<>>
    /\ prod = [p \in Producers |-> ProducerInit]
    /\ out = NoCall

\* the statuses each row has had, once the table is db
SeenAfter(db) ==
    [k \in 1..MaxJobs |-> IF k \in JobIds(db) THEN seen[k] \cup {db[k].status}
                                              ELSE seen[k]]

\* time.time() moves on
Tick ==
    /\ now < MaxTime
    /\ now' = now + 1
    /\ UNCHANGED <<jobs, wk, execs, seen, client>>

\* enqueue_job(job_type, payload, requested_by, max_attempts) on the table
EnqueueJob(db, type, payload, requested_by, max_attempts, t) ==
    Append(db, NewJob(Len(db) + 1, type, JsonDumps(payload), requested_by,
                      max_attempts, t))

\* the call that returned: the id it returned and the arguments it was given
CallOf(id, type, payload, requested_by, max_attempts) ==
    [id |-> id, type |-> type, payload |-> payload,
     requested_by |-> requested_by, max_attempts |-> max_attempts]

\* a producer calls enqueue_job
Enqueue ==
    /\ Len(jobs) < MaxJobs
    /\ \E type \in JobTypes, payload \in Payloads, m \in 1..MaxAttempts :
          /\ jobs' = EnqueueJob(jobs, type, payload, NullText, m, now)
          /\ calls' = Append(calls, CallOf(Len(jobs) + 1, type, payload, NullText, m))
    /\ seen' = SeenAfter(jobs')
    /\ UNCHANGED <<now, wk, execs, prod, out>>

\* a producer calls enqueue_job on the empty store
EnqueueFirst ==
    /\ jobs = <<>>
    /\ \E type \in JobTypes, payload \in Payloads, m \in 1..MaxAttempts :
          /\ jobs' = EnqueueJob(jobs, type, payload, NullText, m, now)
          /\ calls' = Append(calls, CallOf(Len(jobs) + 1, type, payload, NullText, m))
    /\ seen' = SeenAfter(jobs')
    /\ UNCHANGED <<now, wk, execs, prod, out>>

\* as RequeueStaleJobs, with the sweep left out of the pass
RequeueStaleJobsSkipped(w) ==
    /\ wk[w].pc = "loop"
    /\ wk[w].polls % EmptyPollPeriod = 0
    /\ wk' = [wk EXCEPT ![w].pc = "claim"]
    /\ UNCHANGED <<jobs, now, execs, seen, client>>

\* worker_loop: consecutive_empty_polls % 30 == 0, so requeue_stale_jobs runs
RequeueStaleJobs(w) ==
    /\ wk[w].pc = "loop"
    /\ wk[w].polls % EmptyPollPeriod = 0
    /\ jobs' = RequeueStale(jobs, StaleTimeout, now)
    /\ wk' = [wk EXCEPT ![w].pc = "claim"]
    /\ seen' = SeenAfter(jobs')
    /\ UNCHANGED <<now, execs, client>>

\* worker_loop: the requeue is skipped on this pass
SkipRequeue(w) ==
    /\ wk[w].pc = "loop"
    /\ wk[w].polls % EmptyPollPeriod # 0
    /\ wk' = [wk EXCEPT ![w].pc = "claim"]
    /\ UNCHANGED <<jobs, now, execs, seen, client>>

\* claim_next_job: now = time.time() and the SELECT; with no row, None is
\* returned and worker_loop counts an empty poll and sleeps
ClaimSelect(w) ==
    /\ wk[w].pc = "claim"
    /\ LET id == SelectNextQueued(jobs)
       IN  IF id = 0
           THEN wk' = [wk EXCEPT ![w].pc = "loop",
                                 ![w].job = NoJob,
                                 ![w].polls = (@ + 1) % EmptyPollPeriod]
           ELSE wk' = [wk EXCEPT ![w].pc = "update",
                                 ![w].sel = id,
                                 ![w].claim_now = now]
    /\ UNCHANGED <<jobs, now, execs, seen, client>>

\* claim_next_job: the conditional UPDATE and commit; its rowcount is not read
ClaimUpdateStep(w) ==
    /\ wk[w].pc = "update"
    /\ jobs' = ClaimUpdate(jobs, wk[w].sel, w, wk[w].claim_now)
    /\ wk' = [wk EXCEPT ![w].pc = "fetch",
                        ![w].claim_now = 0,
                        ![w].rowcount = IF ClaimMatches(jobs, wk[w].sel) THEN 1 ELSE 0]
    /\ seen' = SeenAfter(jobs')
    /\ UNCHANGED <<now, execs, client>>

\* claim_next_job: return get_job(job_id); worker_loop: the job is truthy,
\* consecutive_empty_polls = 0, process_job(job)
ClaimFetch(w) ==
    /\ wk[w].pc = "fetch"
    /\ wk' = [wk EXCEPT ![w].pc = "process",
                        ![w].job = GetJob(jobs, wk[w].sel),
                        ![w].sel = 0,
                        ![w].polls = 0]
    /\ UNCHANGED <<jobs, now, execs, seen, client>>

\* process_job, known type: the job is marked running with a progress note and
\* the generation subprocess is started
StartHandler(w) ==
    /\ wk[w].pc = "process"
    /\ IsKnownType(wk[w].job.type)
    /\ jobs' = UpdateJobStatus(jobs, wk[w].job.id, "running",
                               NullText, NullText, "starting", NULL, now)
    /\ execs' = [execs EXCEPT ![wk[w].job.id] = IF @ < ExecsCap THEN @ + 1 ELSE @]
    /\ wk' = [wk EXCEPT ![w].pc = "exec", ![w].rowcount = 0]
    /\ seen' = SeenAfter(jobs')
    /\ UNCHANGED <<now, client>>

\* process_job, unknown type: marked failed
FailUnknownType(w) ==
    /\ wk[w].pc = "process"
    /\ ~IsKnownType(wk[w].job.type)
    /\ jobs' = UpdateJobStatus(jobs, wk[w].job.id, "failed",
                               NullText, ErrUnknown, NullText, NULL, now)
    /\ wk' = [wk EXCEPT ![w].pc = "loop", ![w].rowcount = 0, ![w].job = NoJob]
    /\ seen' = SeenAfter(jobs')
    /\ UNCHANGED <<now, execs, client>>

\* the handler ends: subprocess.run returns with a return code, or an
\* exception is raised inside the try block
HandlerEnds(w, outcome) ==
    /\ wk[w].pc = "exec"
    /\ wk' = [wk EXCEPT ![w].pc = "report", ![w].outcome = outcome]
    /\ UNCHANGED <<jobs, now, execs, seen, client>>

\* process_job: returncode == 0
ReportSuccess(w) ==
    /\ wk[w].pc = "report"
    /\ wk[w].outcome = "ok"
    /\ jobs' = UpdateJobStatus(jobs, wk[w].job.id, "succeeded",
                               "output", NullText, NullText, NULL, now)
    /\ wk' = [wk EXCEPT ![w].pc = "loop", ![w].outcome = "none", ![w].job = NoJob]
    /\ seen' = SeenAfter(jobs')
    /\ UNCHANGED <<now, execs, client>>

\* process_job: returncode # 0
ReportScriptFailure(w) ==
    /\ wk[w].pc = "report"
    /\ wk[w].outcome = "error"
    /\ jobs' = UpdateJobStatus(jobs, wk[w].job.id, "failed",
                               NullText, ErrScript, NullText, NULL, now)
    /\ wk' = [wk EXCEPT ![w].pc = "loop", ![w].outcome = "none", ![w].job = NoJob]
    /\ seen' = SeenAfter(jobs')
    /\ UNCHANGED <<now, execs, client>>

\* as HandleException, with the exception let through to end worker_loop
HandleExceptionEndsLoop(w) ==
    /\ wk[w].pc = "report"
    /\ wk[w].outcome = "raise"
    /\ wk' = [wk EXCEPT ![w].pc = "stopped", ![w].outcome = "none", ![w].job = NoJob]
    /\ UNCHANGED <<jobs, now, execs, seen, client>>

\* process_job: the except branch
HandleException(w) ==
    /\ wk[w].pc = "report"
    /\ wk[w].outcome = "raise"
    /\ wk[w].job.attempts + 1 <= AttemptsCap
    /\ LET attempts == wk[w].job.attempts + 1
       IN  jobs' = UpdateJobStatus(jobs, wk[w].job.id,
                                   StatusAfterException(attempts, wk[w].job.max_attempts),
                                   NullText, ErrException, NullText, attempts, now)
    /\ wk' = [wk EXCEPT ![w].pc = "loop", ![w].outcome = "none", ![w].job = NoJob]
    /\ seen' = SeenAfter(jobs')
    /\ UNCHANGED <<now, execs, client>>

\* one step of worker w
WorkerStep(w) ==
    \/ RequeueStaleJobs(w)
    \/ SkipRequeue(w)
    \/ ClaimSelect(w)
    \/ ClaimUpdateStep(w)
    \/ ClaimFetch(w)
    \/ StartHandler(w)
    \/ FailUnknownType(w)
    \/ \E outcome \in Outcomes : HandlerEnds(w, outcome)
    \/ ReportSuccess(w)
    \/ ReportScriptFailure(w)
    \/ HandleException(w)

(* Spec: the workers contend for the one job of the store; every statement of
   one worker interleaves with every statement of the other *)
Next ==
    \/ Tick
    \/ EnqueueFirst
    \/ \E w \in Workers : WorkerStep(w)

Spec == Init /\ [][Next]_vars

(* SpecSeq: up to MaxJobs jobs; a call of claim_next_job runs with nothing else
   in between its SELECT, its UPDATE and its get_job (no concurrent claim, no
   other statement on the store) *)
MidClaim(w) == wk[w].pc \in {"update", "fetch"}

NoOtherMidClaim(w) == \A v \in Workers \ {w} : ~MidClaim(v)

StoreQuiet == \A v \in Workers : ~MidClaim(v)

NextSeq ==
    \/ StoreQuiet /\ Tick
    \/ StoreQuiet /\ Enqueue
    \/ \E w \in Workers : NoOtherMidClaim(w) /\ WorkerStep(w)

SpecSeq == Init /\ [][NextSeq]_vars

(* SpecSingle: one worker process, and a handler that raises on every run *)
TheWorker == "w1"

SingleStep(w) ==
    \/ RequeueStaleJobs(w)
    \/ SkipRequeue(w)
    \/ ClaimSelect(w)
    \/ ClaimUpdateStep(w)
    \/ ClaimFetch(w)
    \/ StartHandler(w)
    \/ FailUnknownType(w)
    \/ HandlerEnds(w, "raise")
    \/ HandleException(w)

NextSingle ==
    \/ Tick
    \/ Enqueue
    \/ SingleStep(TheWorker)

SpecSingle == Init /\ [][NextSingle]_vars

(* SpecWide: as Spec, with enqueue_job given any of the payloads and any
   max_attempts from 0 up: enqueue_job stores whatever integer it is handed *)

\* a producer calls enqueue_job on the empty store
EnqueueAny ==
    /\ jobs = <<>>
    /\ \E type \in JobTypes, payload \in PyPayloads, m \in 0..MaxAttempts :
          /\ jobs' = EnqueueJob(jobs, type, payload, NullText, m, now)
          /\ calls' = Append(calls, CallOf(Len(jobs) + 1, type, payload, NullText, m))
    /\ seen' = SeenAfter(jobs')
    /\ UNCHANGED <<now, wk, execs, prod, out>>

NextWide ==
    \/ Tick
    \/ EnqueueAny
    \/ \E w \in Workers : WorkerStep(w)

SpecWide == Init /\ [][NextWide]_vars

(* SpecEnq: producer processes call enqueue_job side by side. uuid4 is a draw
   from Uuids, so that two calls can draw the same id. Nothing here depends on
   the time that passes, and the clock is left where it is *)

\* enqueue_job: job_id = str(uuid.uuid4()); now = time.time()
EnqueueBegin(p) ==
    /\ prod[p].pc = "idle"
    /\ \E u \in Uuids : prod' = [prod EXCEPT ![p] = [pc |-> "insert", job_id |-> u,
                                                     now |-> now]]
    /\ UNCHANGED <<jobs, now, wk, execs, seen, calls, out>>

\* enqueue_job: the INSERT and commit, then return job_id
EnqueueInsert(p) ==
    /\ prod[p].pc = "insert"
    /\ ~KeyExists(jobs, prod[p].job_id)
    /\ Len(jobs) < MaxJobs
    /\ \E type \in JobTypes, payload \in Payloads, requested_by \in Requesters,
          given \in {NULL} \cup 1..MaxAttempts :
          /\ jobs' = Append(jobs, NewJob(prod[p].job_id, type, JsonDumps(payload),
                                         requested_by, MaxAttemptsParam(given),
                                         prod[p].now))
          /\ calls' = Append(calls, CallOf(prod[p].job_id, type, payload,
                                           requested_by, given))
    /\ seen' = SeenAfter(jobs')
    /\ prod' = [prod EXCEPT ![p] = ProducerInit]
    /\ UNCHANGED <<now, wk, execs, out>>

\* enqueue_job: the INSERT raises sqlite3.IntegrityError, the call returns no id
EnqueueKeyError(p) ==
    /\ prod[p].pc = "insert"
    /\ KeyExists(jobs, prod[p].job_id)
    /\ prod' = [prod EXCEPT ![p] = ProducerInit]
    /\ UNCHANGED <<jobs, now, wk, execs, seen, calls, out>>

NextEnq ==
    \/ \E p \in Producers : EnqueueBegin(p) \/ EnqueueInsert(p) \/ EnqueueKeyError(p)

SpecEnq == Init /\ [][NextEnq]_vars

(* SpecList, SpecUpdate: one call of list_jobs, or of update_job_status, with
   any arguments, on any table that producers and a worker can leave behind;
   the run is followed up to the return of that call *)

\* a caller calls list_jobs
ApiList ==
    /\ out = NoCall
    /\ \E status \in {NullText} \cup Statuses, job_type \in {NullText} \cup JobTypes,
          limit \in {NULL} \cup 0..MaxJobs :
          \E rows \in ListJobs(jobs, status, job_type, limit) :
              out' = [op |-> "list", status |-> status, type |-> job_type,
                      limit |-> limit, rows |-> rows]
    /\ UNCHANGED <<jobs, now, wk, execs, seen, calls, prod>>

\* a caller calls update_job_status
ApiUpdate ==
    /\ out = NoCall
    /\ \E id \in 1..MaxJobs, status \in Statuses, result \in {NullText, "output"},
          error \in {NullText, ErrScript}, progress \in {NullText, "starting"},
          attempts \in {NULL, 0} :
          /\ jobs' = UpdateJobStatus(jobs, id, status, result, error, progress,
                                     attempts, now)
          /\ out' = [op |-> "update", id |-> id, status |-> status,
                     result |-> result, error |-> error, progress |-> progress,
                     attempts |-> attempts]
    /\ seen' = SeenAfter(jobs')
    /\ UNCHANGED <<now, wk, execs, calls, prod>>

NextList ==
    \/ out = NoCall /\ Tick
    \/ out = NoCall /\ Enqueue
    \/ out = NoCall /\ WorkerStep(TheWorker)
    \/ ApiList

SpecList == Init /\ [][NextList]_vars

NextUpdate ==
    \/ out = NoCall /\ Tick
    \/ out = NoCall /\ Enqueue
    \/ out = NoCall /\ WorkerStep(TheWorker)
    \/ ApiUpdate

SpecUpdate == Init /\ [][NextUpdate]_vars

(* SpecStats: GET /api/jobs/stats is served while producers and a worker go
   on: its four list_jobs calls are four statements, and the table can change
   between them; the run is followed up to the response *)

\* no stats request is being served, or one is between two of its queries
StatsOpen == out = NoCall \/ (out.op = "stats" /\ out.total = NULL)

\* get_job_stats: the next of its four list_jobs calls, len() of the list kept
StatsQuery ==
    /\ StatsOpen
    /\ LET counts == IF out = NoCall THEN <<>> ELSE out.counts
           k == Len(counts) + 1
       IN  /\ k <= Len(StatsBuckets)
           /\ \E rows \in ListJobs(jobs, StatsBuckets[k], NullText, StatsLimits[k]) :
                 out' = [op |-> "stats", counts |-> Append(counts, Len(rows)),
                         total |-> NULL]
    /\ UNCHANGED <<jobs, now, wk, execs, seen, calls, prod>>

\* get_job_stats: the response, with the total
StatsReturn ==
    /\ out # NoCall
    /\ out.op = "stats"
    /\ out.total = NULL
    /\ Len(out.counts) = Len(StatsBuckets)
    /\ out' = [out EXCEPT !.total = StatsTotal(out.counts)]
    /\ UNCHANGED <<jobs, now, wk, execs, seen, calls, prod>>

NextStats ==
    \/ StatsOpen /\ Tick
    \/ StatsOpen /\ Enqueue
    \/ StatsOpen /\ WorkerStep(TheWorker)
    \/ StatsQuery
    \/ StatsReturn

SpecStats == Init /\ [][NextStats]_vars

(* SpecCrash: worker TheWorker can be interrupted or killed at any statement;
   the other worker keeps running its loop and time advances *)
Survivor == "w2"

\* worker_loop: KeyboardInterrupt ends the loop (break), and so does the death
\* of the process; the statement under way is abandoned, nothing is written,
\* the locals of the worker are kept here as they were
Interrupt(w) ==
    /\ wk[w].pc # "stopped"
    /\ wk' = [wk EXCEPT ![w].pc = "stopped"]
    /\ UNCHANGED <<jobs, now, execs, seen, client>>

NextCrash ==
    \/ Tick
    \/ EnqueueFirst
    \/ \E w \in Workers : WorkerStep(w)
    \/ Interrupt(TheWorker)

\* the surviving worker goes round its loop for ever (while True) and the
\* clock moves on
SpecCrash ==
    Init /\ [][NextCrash]_vars /\ WF_vars(WorkerStep(Survivor)) /\ WF_vars(Tick)

(* SpecFault: one worker and a store whose write statements can fail with a
   lock timeout (sqlite3.OperationalError after the 10 s of get_db); a
   statement that fails writes nothing *)

\* worker_loop: requeue_stale_jobs raises at its UPDATE; except Exception logs
\* the error
RequeueStaleJobsBusy(w) ==
    /\ wk[w].pc = "loop"
    /\ wk[w].polls % EmptyPollPeriod = 0
    /\ wk' = [wk EXCEPT ![w].pc = "backoff"]
    /\ UNCHANGED <<jobs, now, execs, seen, client>>

\* as ClaimUpdateBusy, with the error raised after the UPDATE was committed
ClaimUpdateBusyAfterCommit(w) ==
    /\ wk[w].pc = "update"
    /\ jobs' = ClaimUpdate(jobs, wk[w].sel, w, wk[w].claim_now)
    /\ wk' = [wk EXCEPT ![w].pc = "backoff", ![w].sel = 0, ![w].claim_now = 0]
    /\ seen' = SeenAfter(jobs')
    /\ UNCHANGED <<now, execs, client>>

\* worker_loop: claim_next_job raises at its UPDATE, the connection is closed
\* without a commit; except Exception logs the error
ClaimUpdateBusy(w) ==
    /\ wk[w].pc = "update"
    /\ wk' = [wk EXCEPT ![w].pc = "backoff", ![w].sel = 0, ![w].claim_now = 0]
    /\ UNCHANGED <<jobs, now, execs, seen, client>>

\* worker_loop: time.sleep(POLL_INTERVAL_SECONDS) of the except Exception
\* branch, then the next pass of while True
Backoff(w) ==
    /\ wk[w].pc = "backoff"
    /\ wk' = [wk EXCEPT ![w].pc = "loop"]
    /\ UNCHANGED <<jobs, now, execs, seen, client>>

\* process_job, known type: update_job_status(job_id, 'running') raises inside
\* the try block, the handler is not started and the except branch is entered
StartHandlerBusy(w) ==
    /\ wk[w].pc = "process"
    /\ IsKnownType(wk[w].job.type)
    /\ wk' = [wk EXCEPT ![w].pc = "report", ![w].outcome = "busy", ![w].rowcount = 0]
    /\ UNCHANGED <<jobs, now, execs, seen, client>>

\* process_job, unknown type: update_job_status(job_id, 'failed') raises
\* inside the try block and the except branch is entered
FailUnknownTypeBusy(w) ==
    /\ wk[w].pc = "process"
    /\ ~IsKnownType(wk[w].job.type)
    /\ wk' = [wk EXCEPT ![w].pc = "report", ![w].outcome = "busy", ![w].rowcount = 0]
    /\ UNCHANGED <<jobs, now, execs, seen, client>>

\* process_job: update_job_status(job_id, 'succeeded') or
\* update_job_status(job_id, 'failed') raises after the subprocess returned,
\* inside the try block, and the except branch is entered
ReportBusy(w) ==
    /\ wk[w].pc = "report"
    /\ wk[w].outcome \in {"ok", "error"}
    /\ wk' = [wk EXCEPT ![w].outcome = "busy"]
    /\ UNCHANGED <<jobs, now, execs, seen, client>>

\* process_job: the except branch, entered by an exception of
\* update_job_status
HandleStoreError(w) ==
    /\ wk[w].pc = "report"
    /\ wk[w].outcome = "busy"
    /\ wk[w].job.attempts + 1 <= AttemptsCap
    /\ LET attempts == wk[w].job.attempts + 1
       IN  jobs' = UpdateJobStatus(jobs, wk[w].job.id,
                                   StatusAfterException(attempts, wk[w].job.max_attempts),
                                   NullText, ErrException, NullText, attempts, now)
    /\ wk' = [wk EXCEPT ![w].pc = "loop", ![w].outcome = "none", ![w].job = NoJob]
    /\ seen' = SeenAfter(jobs')
    /\ UNCHANGED <<now, execs, client>>

\* process_job: update_job_status raises inside the except branch; the
\* exception leaves process_job and worker_loop's except Exception logs it
HandleExceptionBusy(w) ==
    /\ wk[w].pc = "report"
    /\ wk[w].outcome \in {"raise", "busy"}
    /\ wk' = [wk EXCEPT ![w].pc = "backoff", ![w].outcome = "none", ![w].job = NoJob]
    /\ UNCHANGED <<jobs, now, execs, seen, client>>

\* one step of worker w in which the store fails, or the wait after it
FaultStep(w) ==
    \/ RequeueStaleJobsBusy(w)
    \/ ClaimUpdateBusy(w)
    \/ Backoff(w)
    \/ StartHandlerBusy(w)
    \/ FailUnknownTypeBusy(w)
    \/ ReportBusy(w)
    \/ HandleStoreError(w)
    \/ HandleExceptionBusy(w)

NextFault ==
    \/ Tick
    \/ Enqueue
    \/ WorkerStep(TheWorker)
    \/ FaultStep(TheWorker)

SpecFault == Init /\ [][NextFault]_vars

(* SpecFair: Spec, with every worker going round its loop for ever and every
   handler execution ending *)
SpecFair == Spec /\ \A w \in Workers : WF_vars(WorkerStep(w))

----------------------------------------------------------------------------
(* The claims *)

Terminal(status) == status \in {"succeeded", "failed"}

\* worker w is inside process_job
Holding(w) == wk[w].pc \in {"process", "exec", "report"}

\* this step is worker w's call of requeue_stale_jobs
IsRequeueStep(w) ==
    /\ wk[w].pc = "loop"
    /\ wk'[w].pc = "claim"
    /\ wk[w].polls % EmptyPollPeriod = 0

\* this step is worker w's write of the outcome of its handler
IsReportStep(w) == wk[w].pc = "report" /\ wk'[w].pc = "loop"

\* C1: a caller of claim_next_job whose conditional UPDATE matched zero rows is
\* returned None, so that of the callers racing for one queued job only the one
\* whose UPDATE matched is returned the job.
C1_ZeroRowsYieldNoJob ==
    \A w \in Workers :
        (wk[w].pc = "process" /\ wk[w].rowcount = 0) => wk[w].job = NoJob

\* C2: no job is inside process_job of two distinct workers at the same time.
C2_NoDoubleProcessing ==
    \A w, v \in Workers :
        (w # v /\ Holding(w) /\ Holding(v)) => wk[w].job.id # wk[v].job.id

\* C3: a claim_next_job call that runs with no concurrent claim claims the
\* queued job with the smallest created_at (the earlier enqueued of two with
\* equal created_at), sets it running with the caller's worker_id, changes no
\* other job, and returns that job.
C3_ClaimsOldestQueued ==
    [][\A w \in Workers :
        /\ (wk[w].pc = "update" /\ wk'[w].pc = "fetch") =>
              LET j == wk[w].sel
              IN  /\ jobs[j].status = "queued"
                  /\ \A k \in JobIds(jobs) \ {j} :
                        jobs[k].status = "queued" =>
                           \/ jobs[j].created_at < jobs[k].created_at
                           \/ jobs[j].created_at = jobs[k].created_at /\ j < k
                  /\ jobs'[j].status = "running"
                  /\ jobs'[j].worker_id = w
                  /\ Len(jobs') = Len(jobs)
                  /\ \A k \in JobIds(jobs) \ {j} : jobs'[k] = jobs[k]
        /\ (wk[w].pc = "fetch" /\ wk'[w].pc = "process") =>
              /\ wk'[w].job.id = wk[w].sel
              /\ wk[w].rowcount = 1
              /\ jobs[wk[w].sel].status = "running"
              /\ jobs[wk[w].sel].worker_id = w
      ]_vars

\* C3 witness: A and B were enqueued in that order, w1 claimed A and w2 has
\* just been returned B.
C3_Witness ==
    /\ Len(jobs) = 2
    /\ jobs[1].status = "running" /\ jobs[1].worker_id = "w1"
    /\ jobs[2].status = "running" /\ jobs[2].worker_id = "w2"
    /\ wk["w2"].pc = "process" /\ wk["w2"].job.id = 2

\* C4: with one worker and a handler that always raises, a job of a known type
\* with max_attempts = m is never started more than m times; once it is failed
\* it has been started exactly m times, has attempts = m and a non-empty error,
\* and the worker neither holds nor has selected it any more.
C4_BoundedRetry ==
    \A j \in JobIds(jobs) :
        jobs[j].type = KnownType =>
            /\ execs[j] <= jobs[j].max_attempts
            /\ jobs[j].status = "failed" =>
                  /\ execs[j] = jobs[j].max_attempts
                  /\ jobs[j].attempts = jobs[j].max_attempts
                  /\ jobs[j].error # NullText
                  /\ wk[TheWorker].sel # j
                  /\ wk[TheWorker].job.id # j

\* C4 witness: a job enqueued with max_attempts = 2 is failed after its second run.
C4_Witness ==
    \E j \in JobIds(jobs) :
        /\ jobs[j].type = KnownType
        /\ jobs[j].max_attempts = 2
        /\ jobs[j].status = "failed"
        /\ execs[j] = 2

\* C5 (as claimed): requeue_stale_jobs(timeout) called at time t sets a job
\* running since T back to queued when t >= T + timeout, t = T + timeout
\* included, and leaves it running when t < T + timeout.
C5_RequeuedFromTimeout ==
    [][\A w \in Workers : IsRequeueStep(w) =>
        \A j \in JobIds(jobs) :
            jobs[j].status = "running" =>
                IF now >= jobs[j].started_at + StaleTimeout
                THEN jobs'[j].status = "queued"
                ELSE jobs'[j].status = "running"
      ]_vars

\* C5 (amended): requeue_stale_jobs(timeout) called at time t sets a job running
\* since T back to queued, where the next SELECT of a claim finds a queued job,
\* when t > T + timeout, and leaves it running when t <= T + timeout.
C5_RequeuedAfterTimeout ==
    [][\A w \in Workers : IsRequeueStep(w) =>
        \A j \in JobIds(jobs) :
            jobs[j].status = "running" =>
                IF now > jobs[j].started_at + StaleTimeout
                THEN /\ jobs'[j].status = "queued"
                     /\ SelectNextQueued(jobs') # 0
                ELSE jobs'[j].status = "running"
      ]_vars

\* C5 witness: a job that was claimed and never reported on is queued again,
\* later than its started_at + timeout.
C5_Witness ==
    \E j \in JobIds(jobs) :
        /\ jobs[j].status = "queued"
        /\ jobs[j].started_at # NULL
        /\ jobs[j].error = NullText
        /\ jobs[j].progress = NullText
        /\ now > jobs[j].started_at + StaleTimeout

\* C6: finished_at is non-null if and only if status is succeeded or failed.
C6_FinishedIffTerminal ==
    \A j \in JobIds(jobs) :
        (jobs[j].finished_at # NULL) <=> Terminal(jobs[j].status)

\* C7: once a job is succeeded or failed, no step changes its status.
C7_TerminalAbsorbing ==
    [][\A j \in JobIds(jobs) :
        Terminal(jobs[j].status) => jobs'[j].status = jobs[j].status]_vars

\* C8 (as claimed): when the handler of a known-type job fails, by raising or by
\* a non-zero return code, process_job increments attempts and puts the job back
\* to queued if the new attempts is below max_attempts, and marks it failed only
\* when the new attempts >= max_attempts.
C8_FailureRetries ==
    [][\A w \in Workers :
        (IsReportStep(w) /\ wk[w].outcome \in {"error", "raise"}) =>
            LET j == wk[w].job.id
                a == wk[w].job.attempts + 1
            IN  /\ jobs'[j].attempts = a
                /\ a < jobs[j].max_attempts => jobs'[j].status = "queued"
                /\ jobs'[j].status = "failed" => a >= jobs[j].max_attempts
      ]_vars

\* C8 (amended): when the handler raises, process_job writes attempts = 1 + the
\* attempts of the job it was handed and puts the job back to queued if that is
\* below max_attempts, else marks it failed; when the subprocess ends with a
\* non-zero return code, process_job marks the job failed at once and leaves
\* attempts as they are.
C8_ExceptionRetries ==
    [][\A w \in Workers :
        /\ (IsReportStep(w) /\ wk[w].outcome = "raise") =>
              LET j == wk[w].job.id
                  a == wk[w].job.attempts + 1
              IN  /\ jobs'[j].attempts = a
                  /\ jobs'[j].error = ErrException
                  /\ a < jobs[j].max_attempts => jobs'[j].status = "queued"
                  /\ a >= jobs[j].max_attempts => jobs'[j].status = "failed"
        /\ (IsReportStep(w) /\ wk[w].outcome = "error") =>
              LET j == wk[w].job.id
              IN  /\ jobs'[j].status = "failed"
                  /\ jobs'[j].error = ErrScript
                  /\ jobs'[j].attempts = jobs[j].attempts
      ]_vars

\* C8 witness: a job with attempts left is queued again after its handler raised,
\* and no worker is in its claim or its processing.
C8_Witness ==
    \E j \in JobIds(jobs) :
        /\ jobs[j].status = "queued"
        /\ jobs[j].error = ErrException
        /\ jobs[j].attempts = 1
        /\ jobs[j].max_attempts = 2
        /\ \A w \in Workers : wk[w].pc \in {"loop", "claim"}

\* C9: process_job on a job whose type has no handler marks it failed with the
\* unknown-type error in that one step, leaves attempts alone and starts no
\* handler; no worker step ever puts such a job back to queued, and once failed
\* it stays failed.
C9_UnknownTypeFails ==
    [][/\ \A w \in Workers :
            (wk[w].pc = "process" /\ wk[w].job.type # KnownType /\ wk'[w] # wk[w]) =>
                LET j == wk[w].job.id
                IN  /\ jobs'[j].status = "failed"
                    /\ jobs'[j].error = ErrUnknown
                    /\ jobs'[j].attempts = jobs[j].attempts
                    /\ execs' = execs
                    /\ wk'[w].pc = "loop"
       /\ \A j \in JobIds(jobs) :
            jobs[j].type # KnownType =>
                /\ jobs[j].status = "failed" => jobs'[j].status = "failed"
                /\ (jobs[j].status # "queued" /\ jobs'[j].status = "queued") =>
                      \E w \in Workers : IsRequeueStep(w)
                /\ jobs'[j].attempts = 0
                /\ execs'[j] = 0
      ]_vars

\* C9 witness: a job of a type without handler is failed with the unknown-type
\* error, attempts 0, no handler started.
C9_Witness ==
    \E j \in JobIds(jobs) :
        /\ jobs[j].type # KnownType
        /\ jobs[j].status = "failed"
        /\ jobs[j].error = ErrUnknown
        /\ jobs[j].attempts = 0
        /\ execs[j] = 0

\* C10: a job with status queued has a null worker_id.
C10_QueuedHasNoWorker ==
    \A j \in JobIds(jobs) :
        jobs[j].status = "queued" => jobs[j].worker_id = NullText

\* C11: in every reachable state, a job whose result is non-null has status
\* succeeded.
C11_ResultOnlyWhenSucceeded ==
    \A j \in JobIds(jobs) :
        jobs[j].result # NullText => jobs[j].status = "succeeded"

\* C12 as stated: in every reachable state, a job whose error is non-null has
\* had status failed at some earlier or at the current instant.
C12_ErrorOnlyAfterFailed ==
    \A j \in JobIds(jobs) :
        jobs[j].error # NullText => "failed" \in seen[j]

\* C12 amended: a step changes a job's error only when it leaves the job failed,
\* or when it is the except branch of process_job putting the job back to queued
\* with the exception text.
C12_ErrorWrittenOnFailureOrRetry ==
    [][\A j \in JobIds(jobs) :
          jobs'[j].error # jobs[j].error =>
             \/ jobs'[j].status = "failed"
             \/ /\ jobs'[j].status = "queued"
                /\ jobs'[j].error = ErrException
                /\ \E w \in Workers : /\ IsReportStep(w)
                                       /\ wk[w].outcome = "raise"
                                       /\ wk[w].job.id = j]_vars

\* a job put back to queued by the except branch: it carries the exception text
\* and has never been failed
C12_Witness ==
    \E j \in JobIds(jobs) :
        /\ jobs[j].status = "queued"
        /\ jobs[j].error = ErrException
        /\ "failed" \notin seen[j]

\* C13: every step that takes a job from running to queued (requeue_stale_jobs
\* or the except branch) leaves it with attempts < max_attempts, whatever
\* integer max_attempts enqueue_job was given.
C13_RequeueOnlyBelowMax ==
    [][\A j \in JobIds(jobs) :
          (jobs[j].status = "running" /\ jobs'[j].status = "queued") =>
              jobs'[j].attempts < jobs'[j].max_attempts]_vars

\* C15: the ids returned by enqueue_job calls, concurrent ones included, are
\* pairwise distinct, and no two rows of the table share an id.
C15_IdsDistinct ==
    /\ \A a, b \in 1..Len(calls) : a # b => calls[a].id # calls[b].id
    /\ \A a, b \in JobIds(jobs) : a # b => jobs[a].id # jobs[b].id

\* two calls have returned, and a third call has drawn an id that is taken
C15_Witness ==
    /\ Len(calls) = 2
    /\ Len(jobs) = 2
    /\ \E p \in Producers : prod[p].pc = "insert" /\ KeyExists(jobs, prod[p].job_id)

\* C14: in every reachable state, every job enqueued with max_attempts >= 1 has
\* 0 <= attempts <= max_attempts.
C14_AttemptsWithinMax ==
    \A j \in JobIds(jobs) :
        jobs[j].max_attempts >= 1 =>
            /\ 0 <= jobs[j].attempts
            /\ jobs[j].attempts <= jobs[j].max_attempts

\* C16 as stated: for every payload P that enqueue_job was given, get_job on the
\* returned id hands back a payload equal to P, right after the call and after
\* any sequence of claim, update, requeue and worker steps.
C16_PayloadRoundTrip ==
    \A c \in 1..Len(calls) :
        GetJob(jobs, calls[c].id).payload = calls[c].payload

RECURSIVE IsJsonValue(_)
\* a Python value that JSON represents as it is: dicts with str keys, lists,
\* strs, ints and None, nested
IsJsonValue(x) ==
    CASE x.t = "dict" ->
            \A i \in 1..Len(x.v) : x.v[i][1].t = "str" /\ IsJsonValue(x.v[i][2])
      [] x.t = "list" -> \A i \in 1..Len(x.v) : IsJsonValue(x.v[i])
      [] x.t = "tuple" -> FALSE
      [] OTHER -> TRUE

\* C16 amended: for every payload P made of dicts with string keys, lists,
\* strings, numbers and None, get_job on the returned id hands back a payload
\* equal to P, right after the call and after any sequence of claim, update,
\* requeue and worker steps.
C16_JsonPayloadRoundTrip ==
    \A c \in 1..Len(calls) :
        IsJsonValue(calls[c].payload) =>
            GetJob(jobs, calls[c].id).payload = calls[c].payload

\* a job given a nested JSON payload has been claimed, run, retried and finished,
\* and get_job still hands the payload back
C16_Witness ==
    \E c \in 1..Len(calls) :
        /\ calls[c].payload = ListPayload
        /\ jobs[calls[c].id].status = "succeeded"
        /\ jobs[calls[c].id].attempts >= 1
        /\ GetJob(jobs, calls[c].id).payload = ListPayload

C18_UpdateFrame ==
    [][(out.op = "none" /\ out'.op = "update") =>
          /\ Len(jobs') = Len(jobs)
          /\ \A k \in JobIds(jobs) :
                IF k # out'.id THEN jobs'[k] = jobs[k]
                ELSE /\ jobs'[k].status = out'.status
                     /\ jobs'[k].updated_at = now
                     /\ jobs'[k].finished_at =
                            IF out'.status \in {"succeeded", "failed"} THEN now
                            ELSE jobs[k].finished_at
                     /\ jobs'[k].result =
                            IF out'.result # NullText THEN out'.result ELSE jobs[k].result
                     /\ jobs'[k].error =
                            IF out'.error # NullText THEN out'.error ELSE jobs[k].error
                     /\ jobs'[k].progress =
                            IF out'.progress # NullText THEN out'.progress
                            ELSE jobs[k].progress
                     /\ jobs'[k].attempts =
                            IF out'.attempts # NULL THEN out'.attempts
                            ELSE jobs[k].attempts
                     /\ jobs'[k].id = jobs[k].id
                     /\ jobs'[k].type = jobs[k].type
                     /\ jobs'[k].created_at = jobs[k].created_at
                     /\ jobs'[k].started_at = jobs[k].started_at
                     /\ jobs'[k].requested_by = jobs[k].requested_by
                     /\ jobs'[k].payload = jobs[k].payload
                     /\ jobs'[k].max_attempts = jobs[k].max_attempts
                     /\ jobs'[k].worker_id = jobs[k].worker_id]_vars

\* update_job_status(1, 'queued') with nothing else supplied, on a job that had
\* succeeded at an earlier time and next to a second job: the result, the
\* finished_at and the worker_id written before are still there
C18_Witness ==
    /\ out.op = "update"
    /\ out.id = 1
    /\ out.status = "queued"
    /\ out.result = NullText
    /\ out.attempts = NULL
    /\ Len(jobs) = 2
    /\ jobs[1].status = "queued"
    /\ jobs[1].result = "output"
    /\ jobs[1].worker_id = TheWorker
    /\ jobs[1].finished_at # NULL
    /\ jobs[1].finished_at < jobs[1].updated_at

\* C19: a call of requeue_stale_jobs changes the jobs that are running with
\* started_at older than now - timeout, all of them in that one call, and no
\* other job; on each it sets status to queued, worker_id to null and updated_at
\* to now, and leaves every other column as it was.
C19_RequeueFrame ==
    [][\A w \in Workers :
          IsRequeueStep(w) =>
             /\ Len(jobs') = Len(jobs)
             /\ \A k \in JobIds(jobs) :
                   IF jobs[k].status = "running" /\ jobs[k].started_at < now - StaleTimeout
                   THEN jobs'[k] = [jobs[k] EXCEPT !.status = "queued",
                                                   !.worker_id = NullText,
                                                   !.updated_at = now]
                   ELSE jobs'[k] = jobs[k]]_vars

\* job 1, claimed at time 0 and marked running by its handler, has been requeued
\* at time 2 with its started_at and progress kept; job 2, finished by the other
\* worker before that, is as that worker left it
C19_Witness ==
    /\ Len(jobs) = 2
    /\ jobs[1].status = "queued"
    /\ jobs[1].worker_id = NullText
    /\ jobs[1].started_at = 0
    /\ jobs[1].updated_at = 2
    /\ jobs[1].progress = "starting"
    /\ jobs[1].error = NullText
    /\ jobs[1].attempts = 0
    /\ jobs[2].status = "succeeded"
    /\ jobs[2].worker_id # NullText
    /\ jobs[2].updated_at < 2

\* C20: a call of enqueue_job that returns has inserted exactly one new row, with
\* the id it returns, status queued, attempts 0, created_at = updated_at, the
\* given type, payload, requested_by and max_attempts (3 when left out), and
\* null started_at, finished_at, result, error, progress and worker_id; the rows
\* that were there are unchanged.
C20_EnqueueInsertsOneQueuedJob ==
    [][calls' # calls =>
          /\ Len(calls') = Len(calls) + 1
          /\ Len(jobs') = Len(jobs) + 1
          /\ \A k \in JobIds(jobs) : jobs'[k] = jobs[k]
          /\ LET call == calls'[Len(calls')]
                 row == jobs'[Len(jobs')]
             IN  /\ row.id = call.id
                 /\ row.status = "queued"
                 /\ row.attempts = 0
                 /\ row.created_at = row.updated_at
                 /\ row.type = call.type
                 /\ JsonLoads(row.payload) = call.payload
                 /\ row.requested_by = call.requested_by
                 /\ row.max_attempts = IF call.max_attempts = NULL THEN 3
                                        ELSE call.max_attempts
                 /\ row.started_at = NULL
                 /\ row.finished_at = NULL
                 /\ row.result = NullText
                 /\ row.error = NullText
                 /\ row.progress = NullText
                 /\ row.worker_id = NullText]_vars

\* a second row was inserted by a call that left max_attempts out and named the
\* requester
C20_Witness ==
    /\ Len(jobs) = 2
    /\ Len(calls) = 2
    /\ calls[2].max_attempts = NULL
    /\ calls[2].requested_by # NullText
    /\ jobs[2].max_attempts = DefaultMaxAttempts
    /\ jobs[2].status = "queued"

\* C21: in every reachable state a job's started_at is non-null if and only if
\* the job has had status running at some point of its history.
C21_StartedIffEverRunning ==
    \A j \in JobIds(jobs) :
        jobs[j].started_at # NULL <=> "running" \in seen[j]

\* a job claimed, put back to queued after an exception, claimed again and
\* finished: started_at is still there
C21_Witness ==
    \E j \in JobIds(jobs) :
        /\ jobs[j].status = "succeeded"
        /\ jobs[j].attempts = 1
        /\ jobs[j].started_at # NULL
        /\ jobs[j].started_at < jobs[j].finished_at
        /\ {"queued", "running", "succeeded"} \subseteq seen[j]

\* C25: no step changes the id, type, created_at, requested_by or max_attempts
\* of a job that exists, and no step removes a job.
C25_IdentityColumnsFrozen ==
    [][/\ Len(jobs') >= Len(jobs)
       /\ \A j \in JobIds(jobs) :
             /\ jobs'[j].id = jobs[j].id
             /\ jobs'[j].type = jobs[j].type
             /\ jobs'[j].created_at = jobs[j].created_at
             /\ jobs'[j].requested_by = jobs[j].requested_by
             /\ jobs'[j].max_attempts = jobs[j].max_attempts]_vars

\* a job that was claimed, retried after an exception and failed at a later
\* time than it was created
C25_Witness ==
    \E j \in JobIds(jobs) :
        /\ jobs[j].status = "failed"
        /\ jobs[j].attempts = 2
        /\ jobs[j].max_attempts = 2
        /\ jobs[j].created_at < jobs[j].started_at
        /\ jobs[j].id = j

\* C28: no step stores in attempts a value below the one it replaces.
C28_AttemptsNeverDecrease ==
    [][\A j \in JobIds(jobs) : jobs'[j].attempts >= jobs[j].attempts]_vars

\* C30: a step that puts a running job back to queued (the except branch or
\* requeue_stale_jobs) keeps its created_at, and while such a job is queued the
\* SELECT of claim_next_job never takes a job that was enqueued after it.
C30_RetryKeepsPlace ==
    [][/\ \A j \in JobIds(jobs) :
             (jobs[j].status = "running" /\ jobs'[j].status = "queued") =>
                 jobs'[j].created_at = jobs[j].created_at
       /\ \A w \in Workers :
             (wk[w].pc = "claim" /\ wk'[w].pc = "update") =>
                 \A j \in JobIds(jobs) :
                    (jobs[j].status = "queued" /\ "running" \in seen[j]) =>
                        wk'[w].sel <= j]_vars

\* job 1 is back in the queue after a run, job 2 was enqueued later and is
\* queued too, and a worker's SELECT has taken job 1
C30_Witness ==
    /\ Len(jobs) = 2
    /\ jobs[1].status = "queued"
    /\ "running" \in seen[1]
    /\ jobs[2].status = "queued"
    /\ jobs[1].created_at < jobs[2].created_at
    /\ jobs[2].created_at < jobs[1].updated_at
    /\ \E w \in Workers : wk[w].pc = "update" /\ wk[w].sel = 1

\* the number of jobs with this status
CountOf(status) == Cardinality({j \in JobIds(jobs) : jobs[j].status = status})

\* n, capped at limit
Capped(n, limit) == IF n < limit THEN n ELSE limit

\* the stats request is at its k-th list_jobs call in this step
IsStatsQuery(k) ==
    /\ out'.op = "stats"
    /\ Len(out'.counts) = k
    /\ (out = NoCall /\ k = 1) \/ (out # NoCall /\ Len(out.counts) = k - 1)

\* C24: GET /jobs/stats reports for queued, running, succeeded and failed the
\* number of jobs in that status, as its listing of that status finds it, capped
\* at the limit of that listing (the larger limit for queued and running, the
\* smaller for succeeded and failed), and a total that is the sum of the four
\* counts it reports.
C24_StatsCountsAndTotal ==
    [][/\ IsStatsQuery(1) => out'.counts[1] = Capped(CountOf("queued"), ActiveListLimit)
       /\ IsStatsQuery(2) => out'.counts[2] = Capped(CountOf("running"), ActiveListLimit)
       /\ IsStatsQuery(3) => out'.counts[3] = Capped(CountOf("succeeded"), DoneListLimit)
       /\ IsStatsQuery(4) => out'.counts[4] = Capped(CountOf("failed"), DoneListLimit)
       /\ (out'.op = "stats" /\ out'.total # NULL) =>
             /\ Len(out'.counts) = 4
             /\ out'.total = out'.counts[1] + out'.counts[2]
                               + out'.counts[3] + out'.counts[4]]_vars

\* a response given on two succeeded jobs: the succeeded listing is cut at its
\* limit, one job is reported and the total is one
C24_Witness ==
    /\ out.op = "stats"
    /\ out.total = 1
    /\ out.counts = <<0, 0, 1, 0>>
    /\ Len(jobs) = 2
    /\ jobs[1].status = "succeeded"
    /\ jobs[2].status = "succeeded"

\* this step is the except branch of process_job run by worker w
IsExceptStep(w) == wk[w].pc = "report" /\ wk[w].outcome = "raise" /\ wk'[w] # wk[w]

\* C23: an exception raised by a job's handler never ends the worker loop: the
\* step that handles it leaves the job failed or queued and the worker at the
\* top of its loop, from where it polls again, and a worker leaves its loop
\* only in the step in which it is interrupted.
C23_HandlerExceptionKeepsLoop ==
    [][\A w \in Workers :
          /\ IsExceptStep(w) /\ wk'[w].pc # "stopped" =>
                /\ wk'[w].pc = "loop"
                /\ jobs'[wk[w].job.id].status \in {"failed", "queued"}
          /\ wk[w].pc # "stopped" /\ wk'[w].pc = "stopped" =>
                /\ w = TheWorker
                /\ jobs' = jobs
                /\ wk' = [wk EXCEPT ![w].pc = "stopped"]
          /\ wk[w].pc = "stopped" => wk'[w] = wk[w]]_vars

\* a worker whose handler raised twice on the one job (requeued, then failed)
\* is back in its loop polling, and the other worker has been interrupted
C23_Witness ==
    /\ JobIds(jobs) # {}
    /\ jobs[1].status = "failed"
    /\ jobs[1].attempts = 2
    /\ jobs[1].error = ErrException
    /\ jobs[1].worker_id = Survivor
    /\ execs[1] = 2
    /\ wk[Survivor].pc = "claim"
    /\ wk[Survivor].polls = 1
    /\ wk[TheWorker].pc = "stopped"

\* worker w has job j in hand: selected, being fetched or inside process_job
HasInHand(w, j) ==
    \/ wk[w].pc \in {"update", "fetch"} /\ wk[w].sel = j
    \/ Holding(w) /\ wk[w].job.id = j

\* job j is running under the interrupted worker, no other worker has it in
\* hand, and the clock can still pass its stale cutoff
Orphaned(j) ==
    /\ j \in JobIds(jobs)
    /\ jobs[j].status = "running"
    /\ jobs[j].worker_id = TheWorker
    /\ wk[TheWorker].pc = "stopped"
    /\ ~HasInHand(Survivor, j)
    /\ jobs[j].started_at + StaleTimeout < MaxTime

\* job j has been handed back by the sweep after its worker was interrupted,
\* and no worker has it in hand
Reclaimed(j) ==
    /\ j \in JobIds(jobs)
    /\ jobs[j].status = "queued"
    /\ jobs[j].worker_id = NullText
    /\ jobs[j].started_at # NULL
    /\ wk[TheWorker].pc = "stopped"
    /\ ~HasInHand(Survivor, j)

\* C22: a job left running by a worker that crashed or was interrupted is,
\* while another worker keeps running its loop and time advances, eventually
\* put back to queued by that worker's periodic requeue_stale_jobs and then
\* claimed again.
C22_OrphanReclaimed ==
    \A j \in 1..MaxJobs :
        /\ Orphaned(j) ~> Reclaimed(j)
        /\ Reclaimed(j) ~>
              (j \in JobIds(jobs) /\ jobs[j].status = "running"
                  /\ jobs[j].worker_id = Survivor)

\* the job that the interrupted worker had in hand, executed once, is running
\* again under the surviving worker, claimed at the time its staleness was
\* found, with no attempt counted
C22_Witness ==
    /\ JobIds(jobs) # {}
    /\ wk[TheWorker].pc = "stopped"
    /\ wk[TheWorker].job # NoJob
    /\ wk[TheWorker].job.id = 1
    /\ execs[1] = 1
    /\ jobs[1].status = "running"
    /\ jobs[1].worker_id = Survivor
    /\ jobs[1].started_at = MaxTime
    /\ jobs[1].attempts = 0
    /\ wk[Survivor].pc = "process"
    /\ seen[1] = {"queued", "running"}

\* C29: with every worker going round its loop, no worker crashing and every
\* handler execution ending, a job that has just been enqueued eventually
\* reaches status succeeded or failed.
C29_EveryJobEnds ==
    \A j \in 1..MaxJobs :
        (j \in JobIds(jobs) /\ seen[j] = {"queued"})
            ~> (j \in JobIds(jobs) /\ Terminal(jobs[j].status))

\* a job executed three times, one of the executions retried after an
\* exception, that ended succeeded, every worker back in its loop
C29_Witness ==
    /\ JobIds(jobs) # {}
    /\ jobs[1].status = "succeeded"
    /\ jobs[1].attempts = 1
    /\ jobs[1].max_attempts = MaxAttempts
    /\ execs[1] = ExecsCap
    /\ seen[1] = {"queued", "running", "succeeded"}
    /\ \A w \in Workers : ~HasInHand(w, 1) /\ wk[w].pc \in {"loop", "claim"}

\* this step is a call of requeue_stale_jobs or claim_next_job by worker w
\* that raises a store error into worker_loop
IsLoopStoreError(w) == wk[w].pc \in {"loop", "update"} /\ wk'[w].pc = "backoff"

\* C26: a store error raised by requeue_stale_jobs or claim_next_job inside
\* the worker loop is not fatal: the failed call leaves every job as it was,
\* the worker waits one poll interval without touching the store, and then
\* starts the next pass of its loop with its count of empty polls unchanged.
C26_LoopStoreErrorRetried ==
    [][\A w \in Workers :
          /\ IsLoopStoreError(w) =>
                /\ jobs' = jobs
                /\ wk'[w].polls = wk[w].polls
                /\ wk'[w].sel = 0
                /\ wk'[w].job = NoJob
          /\ wk[w].pc = "backoff" /\ wk'[w] # wk[w] =>
                /\ jobs' = jobs
                /\ wk'[w] = [wk[w] EXCEPT !.pc = "loop"]
          /\ wk'[w].pc # "stopped"]_vars

\* the worker waits after a store error while a job is still queued, unowned
\* and never started; a job claimed and failed before shows that the worker
\* has been through its loop
C26_Witness ==
    /\ Len(jobs) = 2
    /\ wk[TheWorker].pc = "backoff"
    /\ wk[TheWorker].polls = 0
    /\ wk[TheWorker].rowcount = 0
    /\ jobs[1].status = "failed"
    /\ jobs[2].status = "queued"
    /\ jobs[2].worker_id = NullText
    /\ jobs[2].started_at = NULL
    /\ seen[2] = {"queued"}
    /\ now = jobs[1].finished_at

\* C27: attempts is incremented only when the handler itself raised: a store
\* error raised by update_job_status while process_job records 'running',
\* 'succeeded' or 'failed' changes no job's attempts and puts no job back to
\* queued.
C27_AttemptsOnlyOnHandlerException ==
    [][\A w \in Workers :
          wk[w].pc = "report" /\ wk[w].outcome = "busy" =>
              \A j \in JobIds(jobs) :
                  /\ jobs'[j].attempts = jobs[j].attempts
                  /\ jobs[j].status # "queued" => jobs'[j].status # "queued"]_vars

====
